---- MODULE Spec2Model ----
(***************************************************************************)
(* Model of the spreadsheet importer of Controle-de-vencimentos            *)
(* (src/utils/excelParser.ts): header-alias resolution, date coercion, the *)
(* row loop and the diagnostics it accumulates.                            *)
(*                                                                         *)
(* Text is a sequence of one-character strings, so that normalisation,     *)
(* splitting, padding and containment are computed character by character. *)
(* A cell is a tagged value [t, s, n]: t = "s" a string (its text in s),   *)
(* "n" a number (in n), "b" a boolean (n = 1 for true), "d" a Date (n its  *)
(* minutes since the Unix epoch), "dx" a Date whose time is NaN.           *)
(* Fixed prose (messages, log lines) is kept as one token of a text.       *)
(***************************************************************************)
EXTENDS Integers, Sequences, FiniteSets, TLC

VARIABLES
    keys,           \* Object.keys of every row of the decoded sheet, in order
    json,           \* the decoded sheet: a sequence of rows, each a sequence of cells aligned with keys
    source,         \* what the FileReader / XLSX.read delivers: "table", "corrupt", "readerror"
    pc,             \* position: "reading", "loop", "resolved", "rejected", "readfailed"; "findKey", "found"; "export"; "app"; "dashboard", "rendered"
    headerRowIndex, \* index (0-based) of the first row holding data
    colMapping,     \* role -> bound header, or Undefined
    idx,            \* 0-based index, in json, of the next row of the forEach
    products,       \* result.products
    diagnostics,    \* result.diagnostics
    rejection,      \* <<>>, or <<v>> once reject(v) was called
    ignoredCount,   \* history: rows that took the blank-name return of the loop
    origin,         \* history: for each element of products, the 0-based index of its row
    previous,       \* history: <<>>, or <<r>> with the outcome r of the call before this one
    aliasArg,       \* the alias list of a call of findKey on its own
    found,          \* what that call returned
    appProducts,    \* App: the products state (the inventory)
    isImporting,    \* App: the isImporting state
    importSummary,  \* App: <<>> for null, or <<result>>
    importError,    \* App: <<>> for null, or <<err>>
    imports,        \* App: the calls of handleImportExcel, each with its file and where it is
    fileInputValue, \* App: the value of the file input
    activeTab,      \* App: the tab shown
    nextId,         \* stands for generateId(): the next id it hands out
    productDays,    \* Dashboard: calculateDaysRemaining of each product of the list, in order
    stats           \* Dashboard: the stats it shows

vars == <<keys, json, source, pc, headerRowIndex, colMapping, idx, products,
          diagnostics, rejection, ignoredCount, origin, previous, aliasArg, found,
          appProducts, isImporting, importSummary, importError, imports,
          fileInputValue, activeTab, nextId, productDays, stats>>

parserVars == <<keys, json, source, pc, headerRowIndex, colMapping, idx, products,
                diagnostics, rejection, ignoredCount, origin, previous, aliasArg, found>>
appVars == <<appProducts, isImporting, importSummary, importError, imports,
             fileInputValue, activeTab, nextId>>
dashboardVars == <<productDays, stats>>

\* undefined, where a text is expected: a one-element sequence no text equals.
Undefined == <<"undefined">>

----------------------------------------------------------------------------
(* Characters *)

LowerLetters == <<"a","b","c","d","e","f","g","h","i","j","k","l","m",
                  "n","o","p","q","r","s","t","u","v","w","x","y","z">>
UpperLetters == <<"A","B","C","D","E","F","G","H","I","J","K","L","M",
                  "N","O","P","Q","R","S","T","U","V","W","X","Y","Z">>
Digits == <<"0","1","2","3","4","5","6","7","8","9">>

\* Precomposed letters and their lower-case forms (String.prototype.toLowerCase).
UpperAccented == <<"Á","Ã","Ç","É","Ó","Õ">>
LowerAccented == <<"á","ã","ç","é","ó","õ">>
\* NFD: base letter followed by a combining mark of U+0300..U+036F.
AccentBase == <<"a","a","c","e","o","o">>
AccentMark == <<"U+0301","U+0303","U+0327","U+0301","U+0301","U+0303">>
CombiningMarks == {"U+0301", "U+0303", "U+0327"}

RangeOf(s) == {s[i] : i \in 1..Len(s)}
AsciiAlnum == RangeOf(LowerLetters) \cup RangeOf(Digits)
DigitSet == RangeOf(Digits)
WhiteSpace == {" ", "\t", "\n"}

PosIn(s, c) == CHOOSE i \in 1..Len(s) : s[i] = c

\* String.prototype.toLowerCase, per character
LowerCaseMap ==
    [c \in RangeOf(UpperLetters) \cup RangeOf(UpperAccented) |->
        IF c \in RangeOf(UpperLetters) THEN LowerLetters[PosIn(UpperLetters, c)]
        ELSE LowerAccented[PosIn(UpperAccented, c)]]
HasUpperCase == DOMAIN LowerCaseMap
toLowerCaseChar(c) == IF c \in HasUpperCase THEN LowerCaseMap[c] ELSE c

\* String.prototype.normalize("NFD"), per character
NfdMap ==
    [c \in RangeOf(LowerAccented) \cup RangeOf(UpperAccented) |->
        IF c \in RangeOf(LowerAccented)
            THEN <<AccentBase[PosIn(LowerAccented, c)], AccentMark[PosIn(LowerAccented, c)]>>
            ELSE <<UpperLetters[PosIn(LowerLetters, AccentBase[PosIn(UpperAccented, c)])],
                   AccentMark[PosIn(UpperAccented, c)]>>]
Decomposable == DOMAIN NfdMap
nfdChar(c) == IF c \in Decomposable THEN NfdMap[c] ELSE <<c>>

----------------------------------------------------------------------------
(* Text helpers: the String.prototype methods the importer uses *)

RECURSIVE FlatMap(_, _)
FlatMap(Op(_), s) == IF s = <<>> THEN <<>> ELSE Op(Head(s)) \o FlatMap(Op, Tail(s))

toLowerCase(s) == [i \in 1..Len(s) |-> toLowerCaseChar(s[i])]
nfd(s) == FlatMap(nfdChar, s)
RemoveChars(s, drop) == SelectSeq(s, LAMBDA c : c \notin drop)
KeepChars(s, keep) == SelectSeq(s, LAMBDA c : c \in keep)

RECURSIVE trimStart(_)
trimStart(s) == IF s # <<>> /\ Head(s) \in WhiteSpace THEN trimStart(Tail(s)) ELSE s
RECURSIVE trimEnd(_)
trimEnd(s) ==
    IF s # <<>> /\ s[Len(s)] \in WhiteSpace THEN trimEnd(SubSeq(s, 1, Len(s) - 1)) ELSE s
trim(s) == trimEnd(trimStart(s))

\* a.includes(b)
includes(a, b) ==
    \E i \in 0..(Len(a) - Len(b)) : \A j \in 1..Len(b) : a[i + j] = b[j]

\* s.split(/[seps]/): the pieces between separators, empty pieces kept.
RECURSIVE SplitAcc(_, _, _)
SplitAcc(s, seps, cur) ==
    IF s = <<>> THEN <<cur>>
    ELSE IF Head(s) \in seps THEN <<cur>> \o SplitAcc(Tail(s), seps, <<>>)
    ELSE SplitAcc(Tail(s), seps, Append(cur, Head(s)))
split(s, seps) == SplitAcc(s, seps, <<>>)

\* s.padStart(2, '0')
padStart2(s) == IF Len(s) >= 2 THEN s ELSE IF Len(s) = 1 THEN <<"0">> \o s ELSE <<"0", "0">>

\* list.join(sep)
RECURSIVE join(_, _)
join(list, sep) ==
    IF list = <<>> THEN <<>>
    ELSE IF Len(list) = 1 THEN list[1]
    ELSE list[1] \o sep \o join(Tail(list), sep)

\* Decimal text of an integer (Number.prototype.toString on an integer).
RECURSIVE NatToText(_)
NatToText(n) == IF n < 10 THEN <<Digits[n + 1]>> ELSE NatToText(n \div 10) \o <<Digits[(n % 10) + 1]>>
IntToText(n) == IF n < 0 THEN <<"-">> \o NatToText(0 - n) ELSE NatToText(n)

----------------------------------------------------------------------------
(* normalize and findKey, src/utils/excelParser.ts:18-41 *)

\* The variant without the removal of non-alphanumerics (as in an earlier revision).
normalizeKeepSymbols(str) ==
    trim(RemoveChars(nfd(toLowerCase(str)), CombiningMarks))

normalize(str) ==
    trim(KeepChars(RemoveChars(nfd(toLowerCase(str)), CombiningMarks), AsciiAlnum))

\* Array.prototype.find: the first element whose flag is set, or Undefined.
\* hit[i] is the value of the predicate on seq[i].
RECURSIVE FirstHit(_, _, _)
FirstHit(seq, hit, i) ==
    IF i > Len(seq) THEN Undefined
    ELSE IF hit[i] THEN seq[i]
    ELSE FirstHit(seq, hit, i + 1)
find(seq, hit) == FirstHit(seq, hit, 1)

\* aliases.map(normalize)
normalizedAliasesOf(aliasList) == [i \in 1..Len(aliasList) |-> normalize(aliasList[i])]
normalizedKeysOf(rowKeys) == [i \in 1..Len(rowKeys) |-> normalize(rowKeys[i])]

\* A single pass that accepts equality or containment, first key in order
\* (as in an earlier revision).
singlePass(rowKeys, normK, normalizedAliases) ==
    find(rowKeys, [i \in 1..Len(rowKeys) |->
        \E j \in 1..Len(normalizedAliases) :
            normK[i] = normalizedAliases[j] \/ includes(normK[i], normalizedAliases[j])])

\* One alias after the other, each tried on every key (as in an earlier revision).
RECURSIVE aliasMajorFrom(_, _, _, _)
aliasMajorFrom(rowKeys, normK, normalizedAliases, j) ==
    IF j > Len(normalizedAliases) THEN Undefined
    ELSE LET foundKey == find(rowKeys, [i \in 1..Len(rowKeys) |->
                            normK[i] = normalizedAliases[j]
                                \/ includes(normK[i], normalizedAliases[j])])
         IN  IF foundKey # Undefined THEN foundKey
             ELSE aliasMajorFrom(rowKeys, normK, normalizedAliases, j + 1)
aliasMajor(rowKeys, normK, normalizedAliases) ==
    aliasMajorFrom(rowKeys, normK, normalizedAliases, 1)

\* lines 32-40, on the normalized keys and aliases
twoPasses(rowKeys, normK, normalizedAliases) ==
    LET exactMatch == find(rowKeys, [i \in 1..Len(rowKeys) |->
                            \E j \in 1..Len(normalizedAliases) : normK[i] = normalizedAliases[j]])
    IN  IF exactMatch # Undefined /\ exactMatch # <<>>
            THEN exactMatch
            ELSE find(rowKeys, [i \in 1..Len(rowKeys) |->
                    \E j \in 1..Len(normalizedAliases) :
                        normK[i] # <<>> /\ includes(normK[i], normalizedAliases[j])])

\* findKey, lines 28-41
findKey(rowKeys, aliasList) ==
    twoPasses(rowKeys, normalizedKeysOf(rowKeys), normalizedAliasesOf(aliasList))

\* The alias table, src/utils/excelParser.ts:91-98.
aliases == [
    name |-> <<
        <<"p","r","o","d","u","t","o">>,
        <<"n","o","m","e">>,
        <<"i","t","e","m">>,
        <<"d","e","s","c">>,
        <<"n","a","m","e">>,
        <<"a","r","t","i","g","o">>
    >>,
    expiry |-> <<
        <<"v","a","l","i","d","a","d","e">>,
        <<"v","e","n","c","i","m","e","n","t","o">>,
        <<"v","e","n","c","e">>,
        <<"d","a","t","a">>,
        <<"e","x","p","i","r","y">>,
        <<"e","x","p">>,
        <<"v","a","l">>
    >>,
    category |-> <<
        <<"c","a","t","e","g","o","r","i","a">>,
        <<"t","i","p","o">>,
        <<"g","r","u","p","o">>,
        <<"c","a","t">>
    >>,
    quantity |-> <<
        <<"q","u","a","n","t","i","d","a","d","e">>,
        <<"q","t","d">>,
        <<"e","s","t","o","q","u","e">>,
        <<"q","u","a","n","t">>,
        <<"u","n","i","d","a","d","e","s">>
    >>,
    location |-> <<
        <<"l","o","c","a","l">>,
        <<"s","e","t","o","r">>,
        <<"p","o","s","i","c","a","o">>,
        <<"a","r","m","a","r","i","o">>
    >>,
    barcode |-> <<
        <<"c","o","d","i","g","o">>,
        <<"b","a","r","c","o","d","e">>,
        <<"e","a","n">>,
        <<"g","t","i","n">>,
        <<"c","o","d">>
    >>
]

Roles == {"name", "expiry", "category", "quantity", "location", "barcode"}

\* aliases.map(normalize) of each role (line 30); it does not depend on the row.
normalizedAliasTable == [role \in Roles |-> normalizedAliasesOf(aliases[role])]

\* colMapping, src/utils/excelParser.ts:100-107: findKey(firstValidRow, aliases[role])
\* for each role, the keys normalized once.
mapRoles(rowKeys, normK) ==
    [role \in Roles |-> twoPasses(rowKeys, normK, normalizedAliasTable[role])]
resolveColumns(rowKeys) ==
    CHOOSE m \in {mapRoles(rowKeys, normK) : normK \in {normalizedKeysOf(rowKeys)}} : TRUE

NoMapping == [role \in Roles |-> Undefined]

----------------------------------------------------------------------------
(* Calendar arithmetic behind Date.prototype.toISOString and               *)
(* XLSX.SSF.parse_date_code                                                *)

\* Civil date of a day count relative to 1970-01-01 (proleptic Gregorian).
CivilFromDays(days) ==
    LET z   == days + 719468
        era == z \div 146097
        doe == z - era * 146097
        yoe == (doe - doe \div 1460 + doe \div 36524 - doe \div 146096) \div 365
        doy == doe - (365 * yoe + yoe \div 4 - yoe \div 100)
        mp  == (5 * doy + 2) \div 153
        d   == doy - (153 * mp + 2) \div 5 + 1
        m   == IF mp < 10 THEN mp + 3 ELSE mp - 9
        y   == yoe + era * 400 + (IF m <= 2 THEN 1 ELSE 0)
    IN  [y |-> y, m |-> m, d |-> d]

MaxDateCode == 2958465
LeapBugSerial == 60
DaysFrom1900To1970 == 25567

\* XLSX.SSF.parse_date_code(v) for an integer v: <<>> stands for null.
parse_date_code(v) ==
    IF v > MaxDateCode \/ v < 0 THEN <<>>
    ELSE IF v = LeapBugSerial THEN <<[y |-> 1900, m |-> 2, d |-> 29]>>
    ELSE IF v = 0 THEN <<[y |-> 1900, m |-> 1, d |-> 0]>>
    ELSE LET date == IF v > LeapBugSerial THEN v - 1 ELSE v
         IN  <<CivilFromDays((date - 1) - DaysFrom1900To1970)>>

MinutesPerDay == 1440

RECURSIVE padStartN(_, _)
padStartN(s, n) == IF Len(s) >= n THEN s ELSE padStartN(<<"0">> \o s, n)

\* Date.prototype.toISOString().split('T')[0] of a valid Date (UTC calendar day).
toISODate(utcMinutes) ==
    LET c == CivilFromDays(utcMinutes \div MinutesPerDay)
        year == IF c.y >= 0 /\ c.y <= 9999 THEN padStartN(NatToText(c.y), 4)
                ELSE IF c.y > 9999 THEN <<"+">> \o padStartN(NatToText(c.y), 6)
                ELSE <<"-">> \o padStartN(NatToText(0 - c.y), 6)
    IN  year \o <<"-">> \o padStartN(NatToText(c.m), 2) \o <<"-">> \o padStartN(NatToText(c.d), 2)

----------------------------------------------------------------------------
(* Cells *)

Text(v) == [t |-> "s", s |-> v, n |-> 0]
Num(v)  == [t |-> "n", s |-> <<>>, n |-> v]
Bool(v) == [t |-> "b", s |-> <<>>, n |-> IF v THEN 1 ELSE 0]
DateCell(v) == [t |-> "d", s |-> <<>>, n |-> v]
InvalidDate == [t |-> "dx", s |-> <<>>, n |-> 0]     \* a Date whose getTime() is NaN
EmptyCell == Text(<<>>)     \* sheet_to_json(..., { defval: "" })

\* String(value). The text of a valid Date depends on the host's zone and
\* locale; it is kept as the token "Date@" followed by the instant.
String(cell) ==
    CASE cell.t = "s" -> cell.s
      [] cell.t = "n" -> IntToText(cell.n)
      [] cell.t = "b" -> IF cell.n = 1 THEN <<"t","r","u","e">> ELSE <<"f","a","l","s","e">>
      [] cell.t = "d" -> <<"Date@">> \o IntToText(cell.n)
      [] cell.t = "dx" -> <<"I","n","v","a","l","i","d"," ","D","a","t","e">>

\* !value
Falsy(cell) ==
    CASE cell.t = "s" -> cell.s = <<>>
      [] cell.t = "n" -> cell.n = 0
      [] cell.t = "b" -> cell.n = 0
      [] cell.t \in {"d", "dx"} -> FALSE

\* row[key]
CellAt(rowKeys, row, key) == row[PosIn(rowKeys, key)]

\* parseInt(value): <<n>>, or <<>> for NaN.
RECURSIVE LeadingDigits(_)
LeadingDigits(s) ==
    IF s # <<>> /\ Head(s) \in DigitSet THEN <<Head(s)>> \o LeadingDigits(Tail(s)) ELSE <<>>
RECURSIVE DigitsToNat(_, _)
DigitsToNat(s, acc) ==
    IF s = <<>> THEN acc ELSE DigitsToNat(Tail(s), acc * 10 + (PosIn(Digits, Head(s)) - 1))
parseInt(cell) ==
    LET s == trimStart(String(cell))
        neg == s # <<>> /\ Head(s) = "-"
        body == IF s # <<>> /\ Head(s) \in {"-", "+"} THEN Tail(s) ELSE s
        ds == LeadingDigits(body)
    IN  IF ds = <<>> THEN <<>>
        ELSE <<(IF neg THEN 0 - DigitsToNat(ds, 0) ELSE DigitsToNat(ds, 0))>>

----------------------------------------------------------------------------
(* Date coercion, src/utils/excelParser.ts:120-134 *)

DateSeparators == {"-", "/", "."}

\* The text branch with the day-first shape only.
coerceTextDayFirst(expiryVal) ==
    LET dateStr == trim(String(expiryVal))
        parts == split(dateStr, DateSeparators)
    IN  IF Len(parts) = 3 /\ Len(parts[3]) = 4
            THEN parts[3] \o <<"-">> \o padStart2(parts[2]) \o <<"-">> \o padStart2(parts[1])
            ELSE <<>>

\* The text branch (lines 128-133): '' when the shape is not recognised.
coerceText(expiryVal) ==
    LET dateStr == trim(String(expiryVal))
        parts == split(dateStr, DateSeparators)
    IN  IF Len(parts) = 3
            THEN IF Len(parts[3]) = 4
                    THEN parts[3] \o <<"-">> \o padStart2(parts[2]) \o <<"-">> \o padStart2(parts[1])
                 ELSE IF Len(parts[1]) = 4
                    THEN parts[1] \o <<"-">> \o padStart2(parts[2]) \o <<"-">> \o padStart2(parts[3])
                 ELSE <<>>
            ELSE <<>>

\* [threw |-> TRUE] when reading d.y of null raises a TypeError (line 126).
coerceDate(expiryVal) ==
    IF expiryVal.t = "d"
        THEN [threw |-> FALSE, expiryDate |-> toISODate(expiryVal.n)]
    ELSE IF expiryVal.t = "n"
        THEN LET d == parse_date_code(expiryVal.n)
             IN  IF d = <<>> THEN [threw |-> TRUE, expiryDate |-> <<>>]
                 ELSE [threw |-> FALSE,
                       expiryDate |-> IntToText(d[1].y) \o <<"-">> \o padStart2(IntToText(d[1].m))
                                      \o <<"-">> \o padStart2(IntToText(d[1].d))]
    ELSE [threw |-> FALSE, expiryDate |-> coerceText(expiryVal)]

NaNDate == <<"N","a","N","-","N","a","N","-","N","a","N">>

\* line 136
isInvalidDate(expiryDate) == expiryDate = <<>> \/ expiryDate = NaNDate

\* The text branch of an earlier revision, src/unnamed/part_000:106-112: the
\* characters that are no digit, '/', '.' or '-' are removed, the text is split
\* on '/' and '-'.
DateChars == DigitSet \cup {"/", ".", "-"}
cleanAndSplit(expiry) ==
    LET s == KeepChars(String(expiry), DateChars)
        p == split(s, {"/", "-"})
    IN  IF Len(p) = 3
            THEN IF Len(p[3]) = 4
                    THEN p[3] \o <<"-">> \o padStart2(p[2]) \o <<"-">> \o padStart2(p[1])
                 ELSE IF Len(p[1]) = 4
                    THEN p[1] \o <<"-">> \o padStart2(p[2]) \o <<"-">> \o padStart2(p[3])
                 ELSE <<>>
            ELSE <<>>

----------------------------------------------------------------------------
(* The result object and what the row loop does with it *)

FileName == <<"e","s","t","o","q","u","e",".","x","l","s","x">>

\* lines 46-58
InitialDiagnostics == [
    totalRowsFound |-> 0,
    successCount |-> 0,
    skippedRows |-> <<>>,
    columnsFound |-> <<>>,
    steps |-> << <<"Lendo arquivo: ">> \o FileName >>,
    rawPreview |-> <<>> ]

\* A result object kept from call to call: the new call goes on with the old one.
sharedResult(leftover) == leftover

\* lines 46-57: every call builds its own result object
createResult(leftover) == [products |-> <<>>, diagnostics |-> InitialDiagnostics]

\* line 118
isBlankName(nameVal) == Falsy(nameVal) \/ trim(String(nameVal)) = <<>>

\* line 137
skipReason(expiryVal) == <<"Data inválida: ", "\"">> \o String(expiryVal) \o <<"\"">>

\* line 114, index being the position within json.slice(headerRowIndex)
rowNumOf(hri, index) == hri + index + 2

\* A blank name recorded as a skipped row (as in an earlier revision).
ignoreRowRecorded(diag, rowNum) ==
    [diag EXCEPT !.skippedRows =
        Append(@, [row |-> rowNum, reason |-> <<"Nome do produto vazio">>])]

\* line 118: return, nothing recorded
ignoreRow(diag, rowNum) == diag

\* The entry put in front of the list (unshift instead of push).
skipRowFront(diag, rowNum, expiryVal) ==
    [diag EXCEPT !.skippedRows = <<[row |-> rowNum, reason |-> skipReason(expiryVal)]>> \o @]

\* lines 136-139
skipRow(diag, rowNum, expiryVal) ==
    [diag EXCEPT !.skippedRows = Append(@, [row |-> rowNum, reason |-> skipReason(expiryVal)])]

Geral == <<"G","e","r","a","l">>

\* value || fallback, then String(...)
StringOr(cell, fallback) == IF Falsy(cell) THEN fallback ELSE String(cell)

\* parseInt(value) || 1
parseIntOr1(cell) ==
    LET n == parseInt(cell) IN IF n = <<>> \/ n = <<0>> THEN 1 ELSE n[1]

\* lines 141-148
buildProduct(rowKeys, row, mapping, nameVal, expiryDate) == [
    name |-> trim(String(nameVal)),
    expiryDate |-> expiryDate,
    category |-> IF mapping.category # Undefined
                    THEN StringOr(CellAt(rowKeys, row, mapping.category), Geral) ELSE Geral,
    quantity |-> IF mapping.quantity # Undefined
                    THEN parseIntOr1(CellAt(rowKeys, row, mapping.quantity)) ELSE 1,
    location |-> IF mapping.location # Undefined
                    THEN StringOr(CellAt(rowKeys, row, mapping.location), <<>>) ELSE <<>>,
    barcode |-> IF mapping.barcode # Undefined
                    THEN StringOr(CellAt(rowKeys, row, mapping.barcode), <<>>) ELSE <<>> ]

\* A rejection value: its diagnostics field is <<>> when absent, <<d>> when present.
\* reject(err.message): the message alone (as in an earlier revision).
rejectBare(message, diag) == [message |-> message, diagnostics |-> <<>>]

\* line 155
rejectValue(message, diag) == [message |-> message, diagnostics |-> <<diag>>]

\* The message without the list of detected columns.
missingColumnsMessageShort(columnsFound) ==
    <<"Não encontrei as colunas 'Produto' e 'Validade'.">>

\* line 110
missingColumnsMessage(columnsFound) ==
    <<"Não encontrei as colunas 'Produto' e 'Validade'.", "\n", "Colunas detectadas: ">>
        \o join(columnsFound, <<",", " ">>)

EmptySheetMessage == <<"A planilha parece estar vazia.">>
XlsxReadMessage == <<"(message of the error thrown by XLSX.read)">>
KeysOfUndefinedMessage == <<"Cannot convert undefined or null to object">>
NullDateCodeMessage == <<"Cannot read properties of null (reading 'y')">>

----------------------------------------------------------------------------
(* The header search, lines 78-89 *)

HeaderSearchLimit == 10
PreviewRows == 3

Min(a, b) == IF a < b THEN a ELSE b

\* keys.some(k => row[k] !== "")
hasData(row) == \E i \in 1..Len(row) : row[i].t # "s" \/ row[i].s # <<>>

\* The row after the first one that has data, as if that one held the headers.
rowAfterHeader(rows) ==
    IF \E i \in 1..Len(rows) : hasData(rows[i])
        THEN CHOOSE i \in 1..Len(rows) : hasData(rows[i]) /\ \A j \in 1..(i - 1) : ~hasData(rows[j])
        ELSE Len(rows)

\* lines 79-86: the first index below min(length, 10) whose row has data, else that minimum
findHeaderRowIndex(rows) ==
    LET limit == Min(Len(rows), HeaderSearchLimit)
    IN  IF \E i \in 0..(limit - 1) : hasData(rows[i + 1])
            THEN CHOOSE i \in 0..(limit - 1) :
                    hasData(rows[i + 1]) /\ \A j \in 0..(i - 1) : ~hasData(rows[j + 1])
            ELSE limit

----------------------------------------------------------------------------
(* The import as a state machine.  parseExcelFile has created the result,   *)
(* logged the first step and called readAsArrayBuffer (pc = "reading").     *)
(* The load handler runs to the row loop in one step; each iteration of     *)
(* forEach is one step; the end of the loop resolves the promise.           *)

\* catch (err) { reject({ message: err.message, diagnostics }) }, lines 154-156
Reject(message, diag) ==
    /\ pc' = "rejected"
    /\ rejection' = <<rejectValue(message, diag)>>
    /\ diagnostics' = diag

\* The reader fires "error": no handler is registered (lines 60-158), nothing runs.
ReaderError ==
    /\ pc = "reading" /\ source = "readerror"
    /\ pc' = "readfailed"
    /\ UNCHANGED <<dashboardVars, appVars, aliasArg, found, previous, keys, json, source, headerRowIndex, colMapping, idx, products,
                   diagnostics, rejection, ignoredCount, origin>>

\* onload, XLSX.read throws (line 66)
OnLoadUnreadable ==
    /\ pc = "reading" /\ source = "corrupt"
    /\ Reject(XlsxReadMessage, diagnostics)
    /\ UNCHANGED <<dashboardVars, appVars, aliasArg, found, previous, keys, json, source, headerRowIndex, colMapping, idx, products,
                   ignoredCount, origin>>

\* onload, the sheet has no rows (line 73)
OnLoadEmpty ==
    /\ pc = "reading" /\ source = "table"
    /\ Len(json) = 0
    /\ Reject(EmptySheetMessage, diagnostics)
    /\ UNCHANGED <<dashboardVars, appVars, aliasArg, found, previous, keys, json, source, headerRowIndex, colMapping, idx, products,
                   ignoredCount, origin>>

\* lines 109: !colMapping.name || !colMapping.expiry
missingRequired(mapping) ==
    \/ mapping.name = Undefined \/ mapping.name = <<>>
    \/ mapping.expiry = Undefined \/ mapping.expiry = <<>>

\* lines 76 and 89
withHeaderRow(diag, rows, rowKeys) ==
    [diag EXCEPT !.rawPreview = SubSeq(rows, 1, Min(PreviewRows, Len(rows))),
                 !.columnsFound = rowKeys]

\* onload, every row searched is blank: json[headerRowIndex] is undefined and
\* Object.keys throws (lines 76-89)
OnLoadNoHeaderRow ==
    /\ pc = "reading" /\ source = "table"
    /\ Len(json) > 0
    /\ \E hri \in {findHeaderRowIndex(json)} :
        /\ hri >= Len(json)
        /\ headerRowIndex' = hri
    /\ Reject(KeysOfUndefinedMessage,
              [diagnostics EXCEPT !.rawPreview = SubSeq(json, 1, Min(PreviewRows, Len(json)))])
    /\ UNCHANGED <<dashboardVars, appVars, aliasArg, found, previous, keys, json, source, colMapping, idx, products, ignoredCount, origin>>

\* onload, lines 76-111 with a required column missing
OnLoadMissingColumns ==
    /\ pc = "reading" /\ source = "table"
    /\ Len(json) > 0
    /\ \E hri \in {findHeaderRowIndex(json)}, mapping \in {resolveColumns(keys)} :
        /\ hri < Len(json)
        /\ missingRequired(mapping)
        /\ headerRowIndex' = hri
        /\ colMapping' = mapping
        /\ Reject(missingColumnsMessage(keys), withHeaderRow(diagnostics, json, keys))
    /\ UNCHANGED <<dashboardVars, appVars, aliasArg, found, previous, keys, json, source, idx, products, ignoredCount, origin>>

\* onload, lines 76-113 with both required columns bound: the row loop starts
OnLoadResolved ==
    /\ pc = "reading" /\ source = "table"
    /\ Len(json) > 0
    /\ \E hri \in {findHeaderRowIndex(json)}, mapping \in {resolveColumns(keys)} :
        /\ hri < Len(json)
        /\ ~missingRequired(mapping)
        /\ headerRowIndex' = hri
        /\ colMapping' = mapping
        /\ idx' = hri
    /\ diagnostics' = withHeaderRow(diagnostics, json, keys)
    /\ pc' = "loop"
    /\ UNCHANGED <<dashboardVars, appVars, aliasArg, found, previous, keys, json, source, products, rejection, ignoredCount, origin>>

\* The row the loop is at, and its two required cells (lines 114-116)
CurrentRow == json[idx + 1]
CurrentRowNum == rowNumOf(headerRowIndex, idx - headerRowIndex)
CurrentName == CellAt(keys, CurrentRow, colMapping.name)
CurrentExpiry == CellAt(keys, CurrentRow, colMapping.expiry)
InLoop == pc = "loop" /\ idx < Len(json)

\* line 118
RowIgnored ==
    /\ InLoop
    /\ isBlankName(CurrentName)
    /\ diagnostics' = ignoreRow(diagnostics, CurrentRowNum)
    /\ ignoredCount' = ignoredCount + 1
    /\ idx' = idx + 1
    /\ UNCHANGED <<dashboardVars, appVars, aliasArg, found, previous, keys, json, source, pc, headerRowIndex, colMapping, products,
                   rejection, origin>>

\* lines 124-126: parse_date_code returns null, the TypeError leaves forEach
RowThrows ==
    /\ InLoop
    /\ ~isBlankName(CurrentName)
    /\ \E c \in {coerceDate(CurrentExpiry)} : c.threw
    /\ Reject(NullDateCodeMessage, diagnostics)
    /\ UNCHANGED <<dashboardVars, appVars, aliasArg, found, previous, keys, json, source, headerRowIndex, colMapping, idx, products,
                   ignoredCount, origin>>

\* lines 136-139
RowSkipped ==
    /\ InLoop
    /\ ~isBlankName(CurrentName)
    /\ \E c \in {coerceDate(CurrentExpiry)} : ~c.threw /\ isInvalidDate(c.expiryDate)
    /\ diagnostics' = skipRow(diagnostics, CurrentRowNum, CurrentExpiry)
    /\ idx' = idx + 1
    /\ UNCHANGED <<dashboardVars, appVars, aliasArg, found, previous, keys, json, source, pc, headerRowIndex, colMapping, products,
                   rejection, ignoredCount, origin>>

\* lines 141-149
RowAccepted ==
    /\ InLoop
    /\ ~isBlankName(CurrentName)
    /\ \E c \in {coerceDate(CurrentExpiry)} :
        /\ ~c.threw /\ ~isInvalidDate(c.expiryDate)
        /\ products' = Append(products,
                buildProduct(keys, CurrentRow, colMapping, CurrentName, c.expiryDate))
    /\ origin' = Append(origin, idx)
    /\ diagnostics' = [diagnostics EXCEPT !.successCount = @ + 1]
    /\ idx' = idx + 1
    /\ UNCHANGED <<dashboardVars, appVars, aliasArg, found, previous, keys, json, source, pc, headerRowIndex, colMapping, rejection,
                   ignoredCount>>

\* lines 152-153
Resolve ==
    /\ pc = "loop" /\ idx = Len(json)
    /\ diagnostics' = [diagnostics EXCEPT !.totalRowsFound = Len(json)]
    /\ pc' = "resolved"
    /\ UNCHANGED <<dashboardVars, appVars, aliasArg, found, previous, keys, json, source, headerRowIndex, colMapping, idx, products,
                   rejection, ignoredCount, origin>>

\* parseExcelFile is called once more with the same file, after the call before
\* it has ended (lines 43-58)
ImportAgain ==
    /\ pc \in {"resolved", "rejected", "readfailed"}
    /\ previous = <<>>
    /\ previous' = <<[outcome |-> pc, products |-> products,
                      diagnostics |-> diagnostics, rejection |-> rejection]>>
    /\ \E result \in {createResult([products |-> products, diagnostics |-> diagnostics])} :
        /\ products' = result.products
        /\ diagnostics' = result.diagnostics
    /\ pc' = "reading"
    /\ headerRowIndex' = 0
    /\ colMapping' = NoMapping
    /\ idx' = 0
    /\ rejection' = <<>>
    /\ ignoredCount' = 0
    /\ origin' = <<>>
    /\ UNCHANGED <<keys, json, source, aliasArg, found, appVars, dashboardVars>>

Next ==
    \/ ReaderError
    \/ OnLoadUnreadable
    \/ OnLoadEmpty
    \/ OnLoadNoHeaderRow
    \/ OnLoadMissingColumns
    \/ OnLoadResolved
    \/ RowIgnored
    \/ RowThrows
    \/ RowSkipped
    \/ RowAccepted
    \/ Resolve
    \/ ImportAgain

----------------------------------------------------------------------------
(* The sheets the model imports *)

MaxCols == 3        \* headers of a sheet of the header family
MaxRows == 2        \* rows of a sheet of the row family

H_Produto   == <<"P","r","o","d","u","t","o">>
H_PRODUTO   == <<"P","R","O","D","U","T","O">>
H_NomeDoProduto == <<"N","o","m","e"," ","d","o"," ","P","r","o","d","u","t","o">>
H_Validade  == <<"V","a","l","i","d","a","d","e">>
H_validade2 == <<"v","a","l","i","d","á","d","e">>
H_ValDot    == <<"V","a","l",".">>
H_VAL       == <<"V","A","L">>
H_Valor     == <<"V","a","l","o","r">>
H_Preco     == <<"P","r","e","ç","o">>
H_Qtd       == <<"Q","t","d">>
H_Hash      == <<"#">>
H_CodProduto == <<"C","o","d"," ","P","r","o","d","u","t","o">>

HeaderPool == {H_Produto, H_PRODUTO, H_NomeDoProduto, H_Validade, H_validade2,
               H_ValDot, H_VAL, H_Valor, H_Preco, H_Qtd, H_Hash, H_CodProduto}

\* Object keys are distinct: the header lists are the injective sequences.
HeaderLists ==
    UNION {{hs \in [1..n -> HeaderPool] : \A i, j \in 1..n : i # j => hs[i] # hs[j]}
           : n \in 1..MaxCols}

T_Leite == <<"L","e","i","t","e">>
T_DMY   == <<"3","1","/","1","2","/","2","0","2","5">>
T_abc   == <<"a","b","c">>
T_Placeholder == <<"d","d","/","m","m","/","a","a","a","a">>

\* 2025-12-31T03:00Z, the local midnight of a host at UTC-3
D_2025_12_31 == DateCell(29452500)

NamePool == {Text(T_Leite), EmptyCell, Text(<<" ">>), Num(0)}
ExpiryPool == {Text(T_DMY), Text(T_abc), Text(T_Placeholder), EmptyCell,
               Num(45000), Num(0 - 1), D_2025_12_31}

RowPool == {<<n, e>> : n \in NamePool, e \in ExpiryPool}
RowFamilyKeys == <<H_Produto, H_Validade>>
BlankRow == <<EmptyCell, EmptyCell>>

Blanks(n) == [i \in 1..n |-> BlankRow]
LongLeadTails == {<<>>, <<BlankRow>>, <<BlankRow, <<Text(T_Leite), Text(T_abc)>> >>,
                  << <<Text(T_Leite), Text(T_DMY)>> >>}

\* the Dashboard before it is rendered
NoStats == [expired |-> 0, warning |-> 0, safe |-> 0]
DashboardFresh ==
    /\ productDays = <<>>
    /\ stats = NoStats

\* src/App.tsx:27-37, the state of the component when it mounts
AppFresh ==
    /\ appProducts = <<>>
    /\ isImporting = FALSE
    /\ importSummary = <<>>
    /\ importError = <<>>
    /\ imports = <<>>
    /\ fileInputValue = <<>>
    /\ activeTab = "DASHBOARD"
    /\ nextId = 1
    /\ DashboardFresh

Fresh ==
    /\ AppFresh
    /\ pc = "reading"
    /\ headerRowIndex = 0
    /\ colMapping = NoMapping
    /\ idx = 0
    /\ products = <<>>
    /\ diagnostics = InitialDiagnostics
    /\ rejection = <<>>
    /\ ignoredCount = 0
    /\ origin = <<>>
    /\ previous = <<>>
    /\ aliasArg = <<>>
    /\ found = Undefined

\* the file cannot be read, or is not a workbook
InitUnreadable ==
    /\ source \in {"readerror", "corrupt"}
    /\ keys = <<>>
    /\ json = <<>>

\* any headers, one row of text cells
InitHeaders ==
    /\ source = "table"
    /\ keys \in HeaderLists
    /\ json = << [i \in 1..Len(keys) |-> Text(T_DMY)] >>

\* two headers, any rows (none included)
InitRows ==
    /\ source = "table"
    /\ keys = RowFamilyKeys
    /\ json \in UNION {[1..n -> RowPool] : n \in 0..MaxRows}

\* two headers, as many leading blank rows as the header search looks at, or one more
InitLongLead ==
    /\ source = "table"
    /\ keys = RowFamilyKeys
    /\ \E n \in {HeaderSearchLimit, HeaderSearchLimit + 1}, tail \in LongLeadTails :
            json = Blanks(n) \o tail

Init == Fresh /\ (InitUnreadable \/ InitHeaders \/ InitRows \/ InitLongLead)

Spec == Init /\ [][Next]_vars

\* The import restricted to the sheets of the header family: column resolution
\* over every header list, followed by the one row of the sheet.
InitColumns == Fresh /\ InitHeaders
NextColumns ==
    \/ OnLoadMissingColumns
    \/ OnLoadResolved
    \/ RowAccepted
    \/ Resolve
SpecColumns == InitColumns /\ [][NextColumns]_vars

----------------------------------------------------------------------------
(* The sheets of the date family: headers Produto | Validade and one row    *)
(* with a name and an expiry cell                                          *)

IsoYears  == {<<"2","0","2","5">>, <<"0","0","0","1">>, <<"9","9","9","9">>}
IsoMonths == {<<"0","1">>, <<"1","2">>, <<"0","0">>, <<"1","3">>}
IsoDays   == {<<"0","1">>, <<"3","1">>, <<"0","0">>, <<"2","9">>}
\* texts of the shape YYYY-MM-DD
IsoTexts == {y \o <<"-">> \o m \o <<"-">> \o d : y \in IsoYears, m \in IsoMonths, d \in IsoDays}

\* Offsets of the host's zone from UTC, in minutes east (UTC-3, UTC, UTC+1, UTC+5:30)
TimezoneOffsets == {0 - 180, 0, 60, 330}
\* Calendar days, counted from 1970-01-01: 2024-02-29, 2025-12-31, 2026-01-01
CalendarDays == {19782, 20453, 20454}
\* The instant (minutes since the epoch) of local midnight of a day: the Date
\* that XLSX.read(..., { cellDates: true }) hands over for a date cell
LocalMidnight(day, offset) == day * MinutesPerDay - offset
\* The day-serial of a calendar day (1900 date system, serials above 60)
SerialOf(day) == day + DaysFrom1900To1970 + 2

NativeDateCells == {DateCell(LocalMidnight(day, off)) : day \in CalendarDays, off \in TimezoneOffsets}
SerialCells == {Num(SerialOf(day)) : day \in CalendarDays}

\* texts as users type them
FreeTexts == {
    <<"3","1","/","1","2","/","2","0","2","5">>,
    <<"1","/","2","/","2","0","2","5">>,
    <<"2","0","2","5","/","1","/","2">>,
    <<"3","1","-","1","2","-","2","0","2","5">>,
    <<"3","1",".","1","2",".","2","0","2","5">>,
    <<"V","a","l",":"," ","3","1","/","1","2","/","2","0","2","5">>,
    <<"3","1","/","1","2","/","2","0","2","5"," ","(","l","o","t","e"," ","7",")">>,
    <<"3","1","/","1","2","/","2","5">>,
    <<"1","2","/","2","0","2","5">>,
    <<" ","3","1","/","1","2","/","2","0","2","5"," ">>,
    <<"a","b","c">>,
    <<>> }

DatePool == {Text(t) : t \in IsoTexts \cup FreeTexts} \cup NativeDateCells \cup SerialCells

InitDates ==
    /\ Fresh
    /\ source = "table"
    /\ keys = RowFamilyKeys
    /\ \E e \in DatePool : json = << <<Text(T_Leite), e>> >>
NextDates ==
    \/ OnLoadResolved
    \/ RowSkipped
    \/ RowAccepted
    \/ Resolve
SpecDates == InitDates /\ [][NextDates]_vars

----------------------------------------------------------------------------
(* The sheets of the field family: one accepted row, with or without the    *)
(* optional columns                                                        *)

H_Categoria == <<"C","a","t","e","g","o","r","i","a">>
H_Local     == <<"L","o","c","a","l">>
H_Codigo    == <<"C","ó","d","i","g","o">>
FieldFamilyKeys == <<H_Produto, H_Validade, H_Qtd, H_Categoria, H_Local, H_Codigo>>

T_Frios == <<"F","r","i","o","s">>
QuantityPool == {Num(5), Num(0), Num(0 - 5), Text(<<"1","2">>), Text(<<"3"," ","u","n">>),
                 Text(T_abc), EmptyCell}
CategoryPool == {Text(T_Frios), Text(<<" ">> \o T_Frios \o <<" ">>), Text(<<" ">>), EmptyCell}
LocationPool == {Text(<<"A","1">>), Text(<<" ">>), EmptyCell}
BarcodePool  == {Text(<<"7","8","9">>), Num(789), Num(0), EmptyCell}

InitFields ==
    /\ Fresh
    /\ source = "table"
    /\ \/ /\ keys = FieldFamilyKeys
          /\ \E q \in QuantityPool, c \in CategoryPool, l \in LocationPool, b \in BarcodePool :
                json = << <<Text(T_Leite), Text(T_DMY), q, c, l, b>> >>
       \/ /\ keys = RowFamilyKeys
          /\ json = << <<Text(T_Leite), Text(T_DMY)>> >>
NextFields ==
    \/ OnLoadResolved
    \/ RowAccepted
    \/ Resolve
SpecFields == InitFields /\ [][NextFields]_vars

----------------------------------------------------------------------------
(* findKey called on its own: any alias list over any row keys             *)

FindKeyHeaders == {H_Produto, H_Validade, H_Hash}
FindKeyKeyLists ==
    UNION {{hs \in [1..n -> FindKeyHeaders] : \A i, j \in 1..n : i # j => hs[i] # hs[j]}
           : n \in 1..2}
AliasArgPool == {<<"p","r","o","d","u","t","o">>, <<"v","a","l">>, <<"-">>, <<>>}
AliasArgLists == UNION {[1..n -> AliasArgPool] : n \in 1..2}

InitFindKey ==
    /\ AppFresh
    /\ pc = "findKey"
    /\ source = "table"
    /\ keys \in FindKeyKeyLists
    /\ json = <<>>
    /\ aliasArg \in AliasArgLists
    /\ found = Undefined
    /\ headerRowIndex = 0
    /\ colMapping = NoMapping
    /\ idx = 0
    /\ products = <<>>
    /\ diagnostics = InitialDiagnostics
    /\ rejection = <<>>
    /\ ignoredCount = 0
    /\ origin = <<>>
    /\ previous = <<>>

\* lines 28-41
FindKeyCall ==
    /\ pc = "findKey"
    /\ found' = findKey(keys, aliasArg)
    /\ pc' = "found"
    /\ UNCHANGED <<keys, json, source, headerRowIndex, colMapping, idx, products,
                   diagnostics, rejection, ignoredCount, origin, previous, aliasArg,
                   appVars, dashboardVars>>

SpecFindKey == InitFindKey /\ [][FindKeyCall]_vars

----------------------------------------------------------------------------
(* exportToExcel, and the import of what it wrote                          *)

\* `${x}` of a part that split did not deliver
PartOrUndefined(parts, i) == IF i <= Len(parts) THEN parts[i] ELSE Undefined

\* month/day/year, the order of another locale
formatDateMonthFirst(dateStr) ==
    IF dateStr = <<>> THEN <<>>
    ELSE LET parts == split(dateStr, {"-"})
         IN  PartOrUndefined(parts, 2) \o <<"/">> \o PartOrUndefined(parts, 3)
                \o <<"/">> \o PartOrUndefined(parts, 1)

\* src/utils/helpers.ts:30-34
formatDate(dateStr) ==
    IF dateStr = <<>> THEN <<>>
    ELSE LET parts == split(dateStr, {"-"})
         IN  PartOrUndefined(parts, 3) \o <<"/">> \o PartOrUndefined(parts, 2)
                \o <<"/">> \o PartOrUndefined(parts, 1)

H_Quantidade == <<"Q","u","a","n","t","i","d","a","d","e">>
H_Localizacao == <<"L","o","c","a","l","i","z","a","c","a","o">>
H_CodigoDeBarras == <<"C","o","d","i","g","o"," ","d","e"," ","B","a","r","r","a","s">>
\* the keys of the objects of lines 165-170
ExportHeaders == <<H_Produto, H_Validade, H_Categoria, H_Quantidade, H_Localizacao,
                   H_CodigoDeBarras>>

\* lines 164-171: one row per product
exportRow(p) ==
    <<Text(p.name), Text(formatDate(p.expiryDate)), Text(p.category), Num(p.quantity),
      Text(p.location), Text(p.barcode)>>
exportData(list) == [i \in 1..Len(list) |-> exportRow(list[i])]

T_Pao == <<"P","ã","o"," ","2">>
\* Products as the inventory holds them: trimmed non-empty name, ISO date,
\* non-blank category, quantity >= 1
ExportPool ==
    {[id |-> 0, name |-> n, expiryDate |-> e, category |-> c[1], quantity |-> c[2],
      location |-> l, barcode |-> l]
        : n \in {T_Leite, T_Pao},
          e \in {<<"2","0","2","5","-","1","2","-","3","1">>, <<"2","0","2","6","-","0","1","-","0","5">>},
          c \in {<<Geral, 1>>, <<T_Frios, 12>>},
          l \in {<<>>, <<"7","8","9">>}}
ExportLists == UNION {[1..n -> ExportPool] : n \in 0..MaxRows}

InitRoundTrip ==
    /\ appProducts \in ExportLists
    /\ isImporting = FALSE
    /\ importSummary = <<>>
    /\ importError = <<>>
    /\ imports = <<>>
    /\ fileInputValue = <<>>
    /\ activeTab = "DASHBOARD"
    /\ nextId = 1
    /\ DashboardFresh
    /\ pc = "export"
    /\ source = "table"
    /\ keys = <<>>
    /\ json = <<>>
    /\ headerRowIndex = 0
    /\ colMapping = NoMapping
    /\ idx = 0
    /\ products = <<>>
    /\ diagnostics = InitialDiagnostics
    /\ rejection = <<>>
    /\ ignoredCount = 0
    /\ origin = <<>>
    /\ previous = <<>>
    /\ aliasArg = <<>>
    /\ found = Undefined

\* exportToExcel(products), lines 163-175, and the file it wrote picked for import:
\* json_to_sheet writes the keys of the objects as the header row; no object, no row
ExportToExcel ==
    /\ pc = "export"
    /\ json' = exportData(appProducts)
    /\ keys' = IF appProducts = <<>> THEN <<>> ELSE ExportHeaders
    /\ pc' = "reading"
    /\ UNCHANGED <<source, headerRowIndex, colMapping, idx, products, diagnostics,
                   rejection, ignoredCount, origin, previous, aliasArg, found, appVars, dashboardVars>>

NextRoundTrip ==
    \/ ExportToExcel
    \/ OnLoadEmpty
    \/ OnLoadResolved
    \/ RowAccepted
    \/ Resolve
SpecRoundTrip == InitRoundTrip /\ [][NextRoundTrip]_vars

----------------------------------------------------------------------------
(* The import flow of the App component, src/App.tsx:51-78 and 85-100.      *)
(* A file stands for what parseExcelFile does with it: its promise is       *)
(* resolved with a result, rejected with an error, or, when the read fails, *)
(* never settled (the three ends of the import above: "resolved",          *)
(* "rejected", "readfailed").  Each call of handleImportExcel is an entry   *)
(* of imports; what follows the await runs in one step.                     *)

MaxImports == 2     \* calls of handleImportExcel

R_Leite == [name |-> T_Leite, expiryDate |-> <<"2","0","2","5","-","1","2","-","3","1">>,
            category |-> Geral, quantity |-> 1, location |-> <<>>, barcode |-> <<>>]
R_Pao   == [name |-> T_Pao, expiryDate |-> <<"2","0","2","6","-","0","1","-","0","5">>,
            category |-> T_Frios, quantity |-> 12, location |-> <<>>, barcode |-> <<"7","8","9">>]
ResultPool == {<<>>, <<R_Leite>>, <<R_Pao, R_Leite>>}
FilePool ==
    {[ends |-> "resolved", records |-> r] : r \in ResultPool}
        \cup {[ends |-> "rejected", records |-> <<>>], [ends |-> "readfailed", records |-> <<>>]}

\* the name the input shows for the picked file
PickedValue == FileName

InitApp ==
    /\ AppFresh
    /\ pc = "app"
    /\ source = "table"
    /\ keys = <<>>
    /\ json = <<>>
    /\ headerRowIndex = 0
    /\ colMapping = NoMapping
    /\ idx = 0
    /\ products = <<>>
    /\ diagnostics = InitialDiagnostics
    /\ rejection = <<>>
    /\ ignoredCount = 0
    /\ origin = <<>>
    /\ previous = <<>>
    /\ aliasArg = <<>>
    /\ found = Undefined

\* The diagnostics modal covers the page while a summary or an error is held (lines 85-86).
ModalShown == importSummary # <<>> \/ importError # <<>>

\* lines 62-66: the records of the result, each with an id of its own
withIds(records, firstId) ==
    [k \in 1..Len(records) |->
        [id |-> firstId + k - 1, name |-> records[k].name,
         expiryDate |-> records[k].expiryDate, category |-> records[k].category,
         quantity |-> records[k].quantity, location |-> records[k].location,
         barcode |-> records[k].barcode]]

\* setProducts(newProducts): the inventory replaced by the imported products
replaceProducts(prev, newProducts) == newProducts

\* line 68: setProducts(prev => [...prev, ...newProducts])
appendProducts(prev, newProducts) == prev \o newProducts

\* handleImportExcel up to the await, lines 51-60: the user picks a file
StartImport ==
    /\ pc = "app"
    /\ ~ModalShown
    /\ Len(imports) < MaxImports
    /\ \E file \in FilePool :
        imports' = Append(imports, [file |-> file, at |-> "awaiting"])
    /\ fileInputValue' = PickedValue
    /\ isImporting' = TRUE
    /\ importSummary' = <<>>
    /\ importError' = <<>>
    /\ UNCHANGED <<parserVars, dashboardVars, appProducts, activeTab, nextId>>

\* the promise of import i is resolved: lines 62-70, then finally (75-76)
SettleResolved(i) ==
    /\ pc = "app"
    /\ imports[i].at = "awaiting"
    /\ imports[i].file.ends = "resolved"
    /\ \E newProducts \in {withIds(imports[i].file.records, nextId)} :
        /\ appProducts' = appendProducts(appProducts, newProducts)
        /\ nextId' = nextId + Len(newProducts)
        /\ activeTab' = IF Len(newProducts) > 0 THEN "INVENTORY" ELSE activeTab
    /\ importSummary' = <<[products |-> imports[i].file.records]>>
    /\ isImporting' = FALSE
    /\ fileInputValue' = <<>>
    /\ imports' = [imports EXCEPT ![i].at = "done"]
    /\ UNCHANGED <<parserVars, dashboardVars, importError>>

\* the promise of import i is rejected: lines 71-73, then finally (75-76)
SettleRejected(i) ==
    /\ pc = "app"
    /\ imports[i].at = "awaiting"
    /\ imports[i].file.ends = "rejected"
    /\ importError' = <<[message |-> EmptySheetMessage]>>
    /\ isImporting' = FALSE
    /\ fileInputValue' = <<>>
    /\ imports' = [imports EXCEPT ![i].at = "done"]
    /\ UNCHANGED <<parserVars, dashboardVars, appProducts, importSummary, activeTab, nextId>>

\* the read of import i fails: the reader has no error handler
\* (src/utils/excelParser.ts:44-60, 158), the promise stays pending
ReadFails(i) ==
    /\ pc = "app"
    /\ imports[i].at = "awaiting"
    /\ imports[i].file.ends = "readfailed"
    /\ imports' = [imports EXCEPT ![i].at = "readfailed"]
    /\ UNCHANGED <<parserVars, dashboardVars, appProducts, isImporting, importSummary, importError,
                   fileInputValue, activeTab, nextId>>

\* the close buttons of the modal, lines 100 and 140
Dismiss ==
    /\ pc = "app"
    /\ ModalShown
    /\ importSummary' = <<>>
    /\ importError' = <<>>
    /\ UNCHANGED <<parserVars, dashboardVars, appProducts, isImporting, imports, fileInputValue,
                   activeTab, nextId>>

Settle == \E i \in 1..Len(imports) : SettleResolved(i) \/ SettleRejected(i)
ReadFailure == \E i \in 1..Len(imports) : ReadFails(i)

NextApp ==
    \/ StartImport
    \/ Settle
    \/ ReadFailure
    \/ Dismiss
SpecApp == InitApp /\ [][NextApp]_vars

\* The event loop delivers the end of every read and runs every continuation
\* that is ready; the user owes no further step.
SpecAppLive == SpecApp /\ WF_vars(Settle) /\ WF_vars(ReadFailure)

----------------------------------------------------------------------------
(* The expiry status and the Dashboard's counts                             *)
(* (src/utils/helpers.ts:24-28, src/unnamed/part_006:12-22)                 *)

\* What calculateDaysRemaining returns: a whole number of days, or NaN when
\* the expiry date does not parse.
DaysNumber(n) == [nan |-> FALSE, n |-> n]
DaysNaN == [nan |-> TRUE, n |-> 0]
\* d < k and d <= k of JavaScript: false as soon as d is NaN
lessThan(d, k) == ~d.nan /\ d.n < k
atMost(d, k) == ~d.nan /\ d.n <= k

WarningDays == 7

\* a variant whose warning window stops one day early
getExpiryStatusShortWindow(daysRemaining) ==
    IF lessThan(daysRemaining, 0) THEN "EXPIRED"
    ELSE IF lessThan(daysRemaining, WarningDays) THEN "WARNING"
    ELSE "SAFE"

getExpiryStatus(daysRemaining) ==
    IF lessThan(daysRemaining, 0) THEN "EXPIRED"
    ELSE IF atMost(daysRemaining, WarningDays) THEN "WARNING"
    ELSE "SAFE"

\* one turn of the forEach of the Dashboard
countOne(s, d) ==
    LET status == getExpiryStatus(d)
    IN  IF status = "EXPIRED" THEN [s EXCEPT !.expired = @ + 1]
        ELSE IF status = "WARNING" THEN [s EXCEPT !.warning = @ + 1]
        ELSE [s EXCEPT !.safe = @ + 1]

RECURSIVE countFrom(_, _, _)
countFrom(s, list, i) ==
    IF i > Len(list) THEN s ELSE countFrom(countOne(s, list[i]), list, i + 1)

dashboardStats(list) == countFrom(NoStats, list, 1)

MaxProducts == 3
DaysPool == {DaysNumber(n) : n \in -3..10} \cup {DaysNaN}
DaysLists == UNION {[1..n -> DaysPool] : n \in 0..MaxProducts}

InitDashboard ==
    /\ productDays \in DaysLists
    /\ stats = NoStats
    /\ pc = "dashboard"
    /\ appProducts = <<>>
    /\ isImporting = FALSE
    /\ importSummary = <<>>
    /\ importError = <<>>
    /\ imports = <<>>
    /\ fileInputValue = <<>>
    /\ activeTab = "DASHBOARD"
    /\ nextId = 1
    /\ source = "table"
    /\ keys = <<>>
    /\ json = <<>>
    /\ headerRowIndex = 0
    /\ colMapping = NoMapping
    /\ idx = 0
    /\ products = <<>>
    /\ diagnostics = InitialDiagnostics
    /\ rejection = <<>>
    /\ ignoredCount = 0
    /\ origin = <<>>
    /\ previous = <<>>
    /\ aliasArg = <<>>
    /\ found = Undefined

\* The Dashboard is rendered with the list: useMemo computes the stats.
DashboardRender ==
    /\ pc = "dashboard"
    /\ stats' = dashboardStats(productDays)
    /\ pc' = "rendered"
    /\ UNCHANGED <<productDays, appVars, keys, json, source, headerRowIndex, colMapping,
                   idx, products, diagnostics, rejection, ignoredCount, origin,
                   previous, aliasArg, found>>

\* A product joins the list and the Dashboard is rendered again: the list is
\* a dependency of the useMemo, so the stats are computed anew.
ProductAdded ==
    /\ pc = "rendered"
    /\ Len(productDays) < MaxProducts
    /\ \E d \in DaysPool :
        /\ productDays' = Append(productDays, d)
        /\ stats' = dashboardStats(Append(productDays, d))
    /\ UNCHANGED <<parserVars, appVars>>

\* A product leaves the list and the Dashboard is rendered again.
ProductRemoved ==
    /\ pc = "rendered"
    /\ \E i \in 1..Len(productDays) :
        /\ productDays' = SubSeq(productDays, 1, i - 1) \o SubSeq(productDays, i + 1, Len(productDays))
        /\ stats' = dashboardStats(productDays')
    /\ UNCHANGED <<parserVars, appVars>>

NextDashboard == DashboardRender \/ ProductAdded \/ ProductRemoved
SpecDashboard == InitDashboard /\ [][NextDashboard]_vars

----------------------------------------------------------------------------
(* Properties *)

Settled == pc \in {"resolved", "rejected"}
\* The header row was found and the columns were resolved (lines 89-107 ran).
ColumnsResolved == diagnostics.columnsFound # <<>>
\* The diagnostics carried by the rejection value, when there is one.
RejectedDiagnostics == rejection[1].diagnostics[1]

IsDigits(s) == \A i \in 1..Len(s) : s[i] \in DigitSet
\* YYYY-MM-DD: 4 digits, 2 digits, 2 digits
IsIsoShape(s) ==
    /\ Len(s) = 10
    /\ s[5] = "-" /\ s[8] = "-"
    /\ IsDigits(SubSeq(s, 1, 4)) /\ IsDigits(SubSeq(s, 6, 7)) /\ IsDigits(SubSeq(s, 9, 10))

\* A name cell that is absent or blank after trimming.
BlankNameCell(cell) == cell.t = "s" /\ trim(cell.s) = <<>>
NameCellOf(row) == CellAt(keys, row, colMapping.name)
ExpiryCellOf(row) == CellAt(keys, row, colMapping.expiry)

\* C1: after a successful import every record of products has a name that is
\* non-empty after trimming and an expiryDate of the shape YYYY-MM-DD.
C1_AcceptedRecordsWellFormed ==
    pc = "resolved" =>
        \A i \in 1..Len(products) :
            /\ trim(products[i].name) # <<>>
            /\ IsIsoShape(products[i].expiryDate)

\* C2: at the end of a successful import successCount is the number of accepted
\* rows (the length of products) and successCount + skippedRows.length + the
\* number of rows with a blank name equals totalRowsFound.
C2_RowAccounting ==
    pc = "resolved" =>
        /\ diagnostics.successCount = Len(products)
        /\ diagnostics.successCount + Len(diagnostics.skippedRows)
             + Cardinality({i \in 1..Len(json) : BlankNameCell(NameCellOf(json[i]))})
           = diagnostics.totalRowsFound

\* C3: whether the import of a table ends in success or in failure, the
\* diagnostics' totalRowsFound is the number of rows of the table.
C3_TotalRowsFoundAlways ==
    /\ (pc = "resolved" => diagnostics.totalRowsFound = Len(json))
    /\ (pc = "rejected" /\ source = "table" =>
            RejectedDiagnostics.totalRowsFound = Len(json))

\* C4: when some header's normalized form equals a normalized alias of a role,
\* the header bound to the role is one with an exact match, also when a header
\* that only contains an alias comes earlier.
ExactFor(role, h) == normalize(h) \in RangeOf(normalizedAliasTable[role])
C4_ExactOutranksContainment ==
    ColumnsResolved =>
        \A role \in Roles :
            (\E i \in 1..Len(keys) : ExactFor(role, keys[i]))
                => /\ colMapping[role] # Undefined
                   /\ ExactFor(role, colMapping[role])

\* A containing-only header precedes the exact header, which is the one bound.
C4_Witness ==
    /\ ColumnsResolved
    /\ \E i, j \in 1..Len(keys) :
        /\ i < j
        /\ ~ExactFor("name", keys[i])
        /\ \E a \in RangeOf(normalizedAliasTable["name"]) : includes(normalize(keys[i]), a)
        /\ ExactFor("name", keys[j])
        /\ colMapping["name"] = keys[j]

\* Letters and digits of a header, case and diacritical marks folded away.
Fold(h) == KeepChars(RemoveChars(nfd(toLowerCase(h)), CombiningMarks), AsciiAlnum)
FoldOfHeader == [h \in HeaderPool |-> Fold(h)]
VariantsOf(h) == {g \in HeaderPool : FoldOfHeader[g] = FoldOfHeader[h]}
RECURSIVE VariantProduct(_)
VariantProduct(hs) ==
    IF hs = <<>> THEN {<<>>}
    ELSE {<<g>> \o rest : g \in VariantsOf(Head(hs)), rest \in VariantProduct(Tail(hs))}
\* The header lists that differ from hs only in case, marks, spaces or punctuation.
VariantLists(hs) ==
    {gs \in VariantProduct(hs) : \A i, j \in 1..Len(gs) : i # j => gs[i] # gs[j]}
\* Position of the bound header in the list, 0 when the role is unbound.
BoundPosition(hs, h) == IF h = Undefined THEN 0 ELSE PosIn(hs, h)

\* C5: two header lists that differ only in letter case, diacritical marks,
\* spaces or punctuation bind every role to the header at the same position.
\* (colMapping is written once; the comparison is made where it was written.)
C5_ResolutionDependsOnNormalForm ==
    (ColumnsResolved /\ idx = headerRowIndex /\ products = <<>>) =>
        \A gs \in VariantLists(keys) :
            \E other \in {resolveColumns(gs)} :
                \A role \in Roles :
                    BoundPosition(gs, other[role]) = BoundPosition(keys, colMapping[role])

\* A list with a variant that differs in punctuation and one that differs in a
\* diacritical mark, both bound.
C5_Witness ==
    /\ ColumnsResolved
    /\ keys = <<H_Valor, H_ValDot, H_Produto>>
    /\ colMapping.expiry = H_ValDot
    /\ <<H_Valor, H_VAL, H_PRODUTO>> \in VariantLists(keys)

\* C6: when the Name or the Expiry role is unresolved after resolution, the
\* import fails before any row is processed (no product, successCount 0, no
\* skipped row) and the message contains every header of columnsFound.
C6_MissingRequiredColumnsIsFatal ==
    (ColumnsResolved /\ missingRequired(colMapping)) =>
        /\ pc = "rejected"
        /\ products = <<>>
        /\ Len(rejection) = 1
        /\ Len(rejection[1].diagnostics) = 1
        /\ RejectedDiagnostics.successCount = 0
        /\ RejectedDiagnostics.skippedRows = <<>>
        /\ RejectedDiagnostics.columnsFound = keys
        /\ \A i \in 1..Len(keys) : includes(rejection[1].message, keys[i])

C6_Witness ==
    /\ pc = "rejected"
    /\ ColumnsResolved
    /\ colMapping.name # Undefined
    /\ colMapping.expiry = Undefined
    /\ Len(keys) >= 2

\* C7: the import of a table with zero rows fails, and the diagnostics of the
\* failure have totalRowsFound 0, successCount 0, no skippedRows, no columnsFound.
C7_EmptySheetFails ==
    (source = "table" /\ Len(json) = 0 /\ pc # "reading") =>
        /\ pc = "rejected"
        /\ Len(rejection) = 1
        /\ Len(rejection[1].diagnostics) = 1
        /\ RejectedDiagnostics.totalRowsFound = 0
        /\ RejectedDiagnostics.successCount = 0
        /\ RejectedDiagnostics.skippedRows = <<>>
        /\ RejectedDiagnostics.columnsFound = <<>>

C7_Witness ==
    /\ source = "table" /\ Len(json) = 0
    /\ pc = "rejected"
    /\ rejection[1].message = EmptySheetMessage

\* C8: every import that fails delivers a failure value that carries a message
\* and the diagnostics accumulated up to the failure.
C8_EveryFailureCarriesDiagnostics ==
    pc \in {"rejected", "readfailed"} =>
        /\ Len(rejection) = 1
        /\ rejection[1].message # <<>>
        /\ rejection[1].diagnostics = <<diagnostics>>

\* C9: a row whose name cell is blank adds nothing to products, nothing to
\* skippedRows and leaves successCount, whatever its expiry cell holds, and it
\* still counts in totalRowsFound.
C9_BlankNameStep ==
    (InLoop /\ BlankNameCell(CurrentName)) =>
        /\ products' = products
        /\ diagnostics'.skippedRows = diagnostics.skippedRows
        /\ diagnostics'.successCount = diagnostics.successCount
        /\ pc' = "loop" /\ idx' = idx + 1
C9_NothingFromBlankRows ==
    pc \in {"loop", "resolved"} =>
        /\ \A i \in 1..Len(origin) : ~BlankNameCell(NameCellOf(json[origin[i] + 1]))
        /\ \A i \in 1..Len(diagnostics.skippedRows) :
                ~BlankNameCell(NameCellOf(json[diagnostics.skippedRows[i].row - 1]))
        /\ (pc = "resolved" => diagnostics.totalRowsFound = Len(json))
C9_BlankNameRowIgnored == [][C9_BlankNameStep]_vars /\ []C9_NothingFromBlankRows

\* A blank-name row with a valid date was passed and a later row was accepted.
C9_Witness ==
    /\ pc = "resolved"
    /\ Len(json) = 2
    /\ BlankNameCell(NameCellOf(json[1])) /\ ExpiryCellOf(json[1]) = Text(T_DMY)
    /\ origin = <<1>>
    /\ diagnostics.skippedRows = <<>>
    /\ diagnostics.totalRowsFound = 2

\* The code's coercion yields no date for the cell.
CannotCoerce(cell) ==
    \E c \in {coerceDate(cell)} : c.threw \/ isInvalidDate(c.expiryDate)

\* C10: for the row at 0-based position i whose name is non-blank and whose
\* expiry cell cannot be coerced to a date, skippedRows gains exactly one entry,
\* with row number i + 2 and a reason that contains the raw expiry value.
C10_Step ==
    (InLoop /\ ~isBlankName(CurrentName) /\ CannotCoerce(CurrentExpiry)) =>
        /\ Len(diagnostics'.skippedRows) = Len(diagnostics.skippedRows) + 1
        /\ SubSeq(diagnostics'.skippedRows, 1, Len(diagnostics.skippedRows))
                = diagnostics.skippedRows
        /\ diagnostics'.skippedRows[Len(diagnostics'.skippedRows)].row = idx + 2
        /\ includes(diagnostics'.skippedRows[Len(diagnostics'.skippedRows)].reason,
                    String(CurrentExpiry))
C10_InvalidDateRowSkipped == [][C10_Step]_vars

\* The table's headers bind both required roles.
RequiredResolved == \E mapping \in {resolveColumns(keys)} : ~missingRequired(mapping)

\* C11: the import of a decoded table fails only when the table has no rows or
\* when the Name or the Expiry role is unresolved; a non-empty table whose
\* headers resolve both ends in success, whatever its cells hold.
C11_OnlyEmptyOrUnresolvedFail ==
    (pc = "rejected" /\ source = "table") => (Len(json) = 0 \/ ~RequiredResolved)

\* The one data row of a sheet of the date family has been processed.
DateRowDone == pc = "resolved" /\ Len(json) = 1 /\ keys = RowFamilyKeys

\* C12: date coercion is the identity on canonical input: for a text cell of
\* the shape YYYY-MM-DD the coerced expiryDate is that same text.
C12_CanonicalTextUnchanged ==
    (DateRowDone /\ ExpiryCellOf(json[1]).t = "s" /\ IsIsoShape(ExpiryCellOf(json[1]).s)) =>
        /\ Len(products) = 1
        /\ products[1].expiryDate = ExpiryCellOf(json[1]).s

C12_Witness ==
    /\ DateRowDone
    /\ ExpiryCellOf(json[1]) = Text(<<"2","0","2","5","-","1","2","-","3","1">>)
    /\ Len(products) = 1
    /\ products[1].expiryDate = <<"2","0","2","5","-","1","2","-","3","1">>

\* ISO string of a calendar day
IsoOfDay(day) == toISODate(day * MinutesPerDay)

\* C13: for a native date cell that stands for local midnight of calendar day
\* D, at any offset of the host's zone, the coerced expiryDate is the ISO
\* string of D, the same string the day-serial of D is decoded to.
C13_NativeDateKeepsCalendarDay ==
    DateRowDone =>
        \A day \in CalendarDays, off \in TimezoneOffsets :
            ExpiryCellOf(json[1]) = DateCell(LocalMidnight(day, off)) =>
                /\ Len(products) = 1
                /\ products[1].expiryDate = IsoOfDay(day)
                /\ products[1].expiryDate = coerceDate(Num(SerialOf(day))).expiryDate

\* The accepted record of the one row of a sheet of the field family.
FieldRowDone == pc = "resolved" /\ Len(json) = 1 /\ Len(products) = 1
\* The cell of a role in the row, <<>> when the role's column is unresolved.
FieldCell(role) ==
    IF colMapping[role] = Undefined THEN <<>> ELSE <<CellAt(keys, json[1], colMapping[role])>>
\* The cell holds a whole number: a numeric cell, or a text of digits only.
WholeNumber(cell) ==
    \/ cell.t = "n"
    \/ cell.t = "s" /\ cell.s # <<>> /\ IsDigits(cell.s)
ValueOf(cell) == IF cell.t = "n" THEN cell.n ELSE DigitsToNat(cell.s, 0)

\* C14: every accepted record's quantity is an integer >= 1: the integer of the
\* Quantity cell when that is a positive integer, and 1 when the column is
\* unresolved or the cell is blank or cannot be parsed.
C14_QuantityPositive ==
    FieldRowDone =>
        /\ products[1].quantity >= 1
        /\ \A cell \in {FieldCell("quantity")} :
            /\ (cell = <<>> \/ trim(String(cell[1])) = <<>> \/ parseInt(cell[1]) = <<>>)
                    => products[1].quantity = 1
            /\ (cell # <<>> /\ WholeNumber(cell[1]) /\ ValueOf(cell[1]) >= 1)
                    => products[1].quantity = ValueOf(cell[1])

Default(role) == IF role = "category" THEN Geral ELSE <<>>
\* The trimmed text of the role's cell, or the default when the column is
\* unresolved or the cell is blank after trimming.
TrimmedOrDefault(role) ==
    LET cell == FieldCell(role)
    IN  IF cell = <<>> \/ trim(String(cell[1])) = <<>> THEN Default(role)
        ELSE trim(String(cell[1]))

\* C15: in every accepted record category, location and barcode equal the
\* trimmed text of their cell, or the default ("Geral" for category, the empty
\* text for location and barcode) when the column is unresolved or the cell is
\* blank after trimming.
C15_OptionalTextTrimmedOrDefault ==
    FieldRowDone =>
        /\ products[1].category = TrimmedOrDefault("category")
        /\ products[1].location = TrimmedOrDefault("location")
        /\ products[1].barcode = TrimmedOrDefault("barcode")

\* The second of two calls with the same file has ended.
SecondCallEnded == previous # <<>> /\ pc \in {"resolved", "rejected", "readfailed"}

C17_NoHeaderBoundTwice ==
    ColumnsResolved =>
        \A r1, r2 \in Roles :
            (r1 # r2 /\ colMapping[r1] # Undefined) => colMapping[r1] # colMapping[r2]

\* The header's normalized form contains a normalized alias of the role.
ContainsFor(role, h) ==
    normalize(h) # <<>>
        /\ \E a \in RangeOf(normalizedAliasTable[role]) : includes(normalize(h), a)
Leftmost(S) == CHOOSE i \in S : \A j \in S : i <= j
Reverse(s) == [i \in 1..Len(s) |-> s[Len(s) + 1 - i]]
Rotate(s) == IF s = <<>> THEN s ELSE Tail(s) \o <<Head(s)>>

\* C18: within each pass the header bound to a role is the leftmost header, in
\* header order, that satisfies the pass, and the order of the aliases in the
\* role's list never changes which header is chosen.
C18_LeftmostHeaderWins ==
    ColumnsResolved =>
        \E normK \in {normalizedKeysOf(keys)} :
            \A role \in Roles :
                LET exact == {i \in 1..Len(keys) : ExactFor(role, keys[i])}
                    containing == {i \in 1..Len(keys) : ContainsFor(role, keys[i])}
                IN  /\ colMapping[role] =
                        IF exact # {} THEN keys[Leftmost(exact)]
                        ELSE IF containing # {} THEN keys[Leftmost(containing)]
                        ELSE Undefined
                    /\ \A order \in {Reverse(normalizedAliasTable[role]),
                                      Rotate(normalizedAliasTable[role])} :
                            twoPasses(keys, normK, order) = colMapping[role]

\* Two headers match exactly; the bound one is the left one, whose alias comes
\* later in the alias list.
C18_Witness ==
    /\ ColumnsResolved
    /\ Len(keys) >= 2
    /\ keys[1] = H_VAL /\ keys[2] = H_Validade
    /\ colMapping.expiry = H_VAL

NonEmptyNormal(alias) == normalize(alias) # <<>>

C20_TextCoercionFollowsReference ==
    (DateRowDone /\ ExpiryCellOf(json[1]).t = "s") =>
        \E reference \in {cleanAndSplit(ExpiryCellOf(json[1]))} :
            IF reference = <<>>
                THEN products = <<>> /\ Len(diagnostics.skippedRows) = 1
                ELSE Len(products) = 1 /\ products[1].expiryDate = reference

\* C21: processing a row whose date is invalid leaves products and
\* successCount unchanged and does not stop the row loop: the loop goes on with
\* the next row.
C21_Step ==
    (InLoop /\ ~isBlankName(CurrentName) /\ CannotCoerce(CurrentExpiry)) =>
        /\ products' = products
        /\ diagnostics'.successCount = diagnostics.successCount
        /\ pc' = "loop"
        /\ idx' = idx + 1
C21_InvalidDateKeepsLoopGoing == [][C21_Step]_vars

PopulatedRowExists == \E i \in 1..Len(json) : hasData(json[i])
\* 0-based index of the first row with a non-empty cell
FirstPopulated ==
    CHOOSE i \in 0..(Len(json) - 1) :
        hasData(json[i + 1]) /\ \A j \in 0..(i - 1) : ~hasData(json[j + 1])

\* C22: when the table has a row with a non-empty cell, the column map and
\* columnsFound are built from the headers of the first such row, and every
\* row from that row to the end of the table is processed exactly once.
C22_FirstPopulatedRowIsHeader ==
    (source = "table" /\ pc \in {"loop", "resolved", "rejected"} /\ PopulatedRowExists) =>
        /\ diagnostics.columnsFound = keys
        /\ colMapping = resolveColumns(keys)
        /\ headerRowIndex <= FirstPopulated
        /\ pc = "loop" =>
                /\ idx >= headerRowIndex
                /\ diagnostics.successCount + Len(diagnostics.skippedRows) + ignoredCount
                        = idx - headerRowIndex
        /\ pc = "resolved" =>
                diagnostics.successCount + Len(diagnostics.skippedRows) + ignoredCount
                    = Len(json) - headerRowIndex

\* A blank row, then a row that is accepted: the search stopped at the second.
C22_Witness ==
    /\ pc = "resolved"
    /\ Len(json) = 2
    /\ ~hasData(json[1]) /\ hasData(json[2])
    /\ headerRowIndex = 1
    /\ origin = <<1>>

IsPrefix(a, b) == Len(a) <= Len(b) /\ SubSeq(b, 1, Len(a)) = a
\* Within one call the log only grows.
C23_AppendOnly == pc' # "reading" => IsPrefix(diagnostics.steps, diagnostics'.steps)
\* Entries the log holds at the end: read start, columns resolved, row loop
\* complete and terminal outcome on success; on failure at least the read
\* start and, last, the failure.
C23_EntriesAtEnd ==
    /\ pc = "resolved" => Len(diagnostics.steps) >= 4
    /\ pc = "rejected" => Len(RejectedDiagnostics.steps) >= 2

\* C23: the steps log is append-only; on a successful import it holds, in this
\* order, an entry for read start, columns resolved, row loop complete and the
\* terminal outcome; on a failed import its last entry records the failure.
C23_StepsLogEveryPhase == [][C23_AppendOnly]_vars /\ []C23_EntriesAtEnd

\* The import of the exported rows has ended.
RoundTripEnded == pc \in {"resolved", "rejected"}
\* The import gave back the exported products, one record each, in order.
SameAsExported ==
    /\ pc = "resolved"
    /\ Len(products) = Len(appProducts)
    /\ \A i \in 1..Len(products) :
        /\ products[i].name = appProducts[i].name
        /\ products[i].expiryDate = appProducts[i].expiryDate
        /\ products[i].category = appProducts[i].category
        /\ products[i].quantity = appProducts[i].quantity
        /\ products[i].location = appProducts[i].location
        /\ products[i].barcode = appProducts[i].barcode
    /\ diagnostics.skippedRows = <<>>

\* C24 as stated: for every list of well-formed products, the empty list
\* included, importing the rows written by exportToExcel yields one accepted
\* record per product, in order, with the same fields, and no skipped row.
C24_RoundTripEveryList == RoundTripEnded => SameAsExported

\* C24: for every non-empty list of well-formed products, importing the rows
\* written by exportToExcel yields one accepted record per product, in order,
\* with the same name, expiryDate, category, quantity, location and barcode,
\* and no skipped row; the export of the empty list is rejected as an empty sheet.
C24_RoundTripNonEmpty ==
    RoundTripEnded =>
        IF appProducts # <<>> THEN SameAsExported
        ELSE pc = "rejected" /\ rejection[1].message = EmptySheetMessage

C24_Witness ==
    /\ pc = "resolved"
    /\ Len(appProducts) = 2
    /\ appProducts[1].name = T_Pao /\ appProducts[2].name = T_Leite
    /\ appProducts[1].barcode # <<>> /\ appProducts[2].quantity = 12
    /\ Len(products) = 2

\* C25: importSummary and importError are never both non-null, under every
\* interleaving of imports and dismissals.
C25_SummaryAndErrorExclusive == ~(importSummary # <<>> /\ importError # <<>>)

\* Import i was started and has not reached its finally step.
Unsettled(i) == i <= Len(imports) /\ imports[i].at # "done"

\* C26: whenever at least one import has not yet settled, isImporting is true,
\* also when two imports overlap and one of them finishes first.
C26_ImportingWhilePending ==
    (\E i \in 1..Len(imports) : Unsettled(i)) => isImporting

\* Import i has reached its finally step.
Finished(i) == i <= Len(imports) /\ imports[i].at = "done"

\* C27: every import that was started eventually settles and reaches its
\* finally step, whether the read ends with a load event or with an error.
C27_EveryImportSettles ==
    \A i \in 1..MaxImports : (i <= Len(imports)) ~> Finished(i)

\* Import i reaches its finally step in this step.
SettlesNow(i) == imports[i].at = "awaiting" /\ imports'[i].at = "done"
IdsOf(list) == {list[k].id : k \in 1..Len(list)}
\* The products after the first n of a list
After(list, n) == SubSeq(list, n + 1, Len(list))
SameFields(product, record) ==
    /\ product.name = record.name
    /\ product.expiryDate = record.expiryDate
    /\ product.category = record.category
    /\ product.quantity = record.quantity
    /\ product.location = record.location
    /\ product.barcode = record.barcode

C28_Step ==
    /\ IsPrefix(appProducts, appProducts')
    /\ (\A i \in 1..Len(imports) : ~SettlesNow(i)) => appProducts' = appProducts
    /\ \A i \in 1..Len(imports) :
        SettlesNow(i) =>
            IF imports[i].file.ends = "resolved"
                THEN LET records == imports[i].file.records
                         added == After(appProducts', Len(appProducts))
                     IN  /\ Len(added) = Len(records)
                         /\ \A k \in 1..Len(records) : SameFields(added[k], records[k])
                         /\ IdsOf(added) \cap IdsOf(appProducts) = {}
                         /\ Cardinality(IdsOf(added)) = Len(added)
                ELSE appProducts' = appProducts

\* C28: handleImportExcel changes the inventory only by appending: a failed
\* import leaves it unchanged, a successful one appends one product per
\* accepted record, in record order, after the existing products, whose
\* fields, ids and order stay as they were.
C28_InventoryOnlyAppended == [][C28_Step]_vars

\* Two imports have added one and two products.
C28_Witness ==
    /\ Len(imports) = 2
    /\ Finished(1) /\ Finished(2)
    /\ Len(appProducts) = 3
    /\ appProducts[1].name = T_Leite /\ appProducts[1].id = 1
    /\ appProducts[2].name = T_Pao /\ appProducts[3].name = T_Leite

\* C29: output order follows source order: the row numbers in skippedRows are
\* strictly increasing and lie between 2 and the number of rows + 1, products
\* lists the accepted rows in the order of the table, and no row is both in
\* products and in skippedRows.
C29_OutputFollowsSourceOrder ==
    (source = "table" /\ pc \in {"loop", "resolved", "rejected"}) =>
        LET skipped == diagnostics.skippedRows
        IN  /\ \A i \in 1..Len(skipped) : skipped[i].row >= 2 /\ skipped[i].row <= Len(json) + 1
            /\ \A i, j \in 1..Len(skipped) : i < j => skipped[i].row < skipped[j].row
            /\ Len(origin) = Len(products)
            /\ \A i, j \in 1..Len(origin) : i < j => origin[i] < origin[j]
            /\ \A i \in 1..Len(products) :
                    /\ origin[i] < Len(json)
                    /\ products[i].name = trim(String(NameCellOf(json[origin[i] + 1])))
            /\ \A i \in 1..Len(origin), j \in 1..Len(skipped) : origin[i] + 2 # skipped[j].row

\* Two rows skipped, in the order of the table.
C29_Witness ==
    /\ pc = "resolved"
    /\ Len(diagnostics.skippedRows) = 2
    /\ diagnostics.skippedRows[1].row = 2
    /\ diagnostics.skippedRows[2].row = 3

\* C30: getExpiryStatus gives every whole number of days exactly one status,
\* EXPIRED exactly below 0, WARNING exactly from 0 to 7, SAFE exactly above 7;
\* and once the Dashboard is rendered its expired, warning and safe counts are
\* the numbers of products in those ranges and add up to the length of the list.
Statuses == {"EXPIRED", "WARNING", "SAFE"}
WholeDays(list) == {i \in 1..Len(list) : ~list[i].nan}
C30_OneStatusAndCountsAddUp ==
    pc = "rendered" =>
        /\ \A i \in 1..Len(productDays) : getExpiryStatus(productDays[i]) \in Statuses
        /\ \A i \in WholeDays(productDays) :
            /\ getExpiryStatus(productDays[i]) = "EXPIRED" <=> productDays[i].n < 0
            /\ getExpiryStatus(productDays[i]) = "WARNING" <=> productDays[i].n \in 0..7
            /\ getExpiryStatus(productDays[i]) = "SAFE" <=> productDays[i].n > 7
        /\ stats.expired = Cardinality({i \in WholeDays(productDays) : productDays[i].n < 0})
        /\ stats.warning = Cardinality({i \in WholeDays(productDays) : productDays[i].n \in 0..7})
        /\ stats.safe >= Cardinality({i \in WholeDays(productDays) : productDays[i].n > 7})
        /\ stats.expired + stats.warning + stats.safe = Len(productDays)

\* A rendered list holding the day before expiry, the last day of the warning
\* window and the first safe day.
C30_Witness ==
    /\ pc = "rendered"
    /\ productDays = <<DaysNumber(-1), DaysNumber(7), DaysNumber(8)>>
    /\ stats = [expired |-> 1, warning |-> 1, safe |-> 1]

====
